---- MODULE Spec2Model ----
(***************************************************************************)
(* serverless-sns-dlq: the plugin of src/index.js (second, current copy,   *)
(* lines 121-294) that wires an SQS dead-letter queue into the compiled    *)
(* CloudFormation template for every function with SNS events.             *)
(*                                                                         *)
(* Strings are sequences of one-character strings, so that pascalCase,     *)
(* split(":").pop(), template literals and .length are computed, not       *)
(* assumed.  JavaScript objects are functions from key strings to values;  *)
(* an absent property is a key outside the DOMAIN.                         *)
(***************************************************************************)
EXTENDS Integers, Sequences, FiniteSets, TLC

\* ---------------------------------------------------------------- bounds
\* Largest number of functions declared in one service.
MaxFns == 2
\* Largest number of Deploy runs in one behaviour.
MaxRuns == 2
\* Number of SNS events of the function "many".
ManyTopics == 11

\* ------------------------------------------------------- program constant
\* _validateQueueName: if (queueName.length > 80)
MaxQueueNameLen == 80

\* ------------------------------------------------------- string literals
s_dlq == <<"-", "d", "l", "q">>
s_arn_sqs == <<"a", "r", "n", ":", "a", "w", "s", ":", "s", "q", "s", ":">>
s_https_sqs == <<"h", "t", "t", "p", "s", ":", "/", "/", "s", "q", "s", ".">>
s_amazonaws == <<".", "a", "m", "a", "z", "o", "n", "a", "w", "s", ".", "c", "o", "m", "/">>
s_SQSDeadLetterQueue == <<"S", "Q", "S", "D", "e", "a", "d", "L", "e", "t", "t", "e", "r", "Q", "u", "e", "u", "e">>
s_LambdaFunction == <<"L", "a", "m", "b", "d", "a", "F", "u", "n", "c", "t", "i", "o", "n">>
s_SnsSubscription == <<"S", "n", "s", "S", "u", "b", "s", "c", "r", "i", "p", "t", "i", "o", "n">>
s_SQSDeadLetterQueuePolicy == <<"S", "Q", "S", "D", "e", "a", "d", "L", "e", "t", "t", "e", "r", "Q", "u", "e", "u", "e", "P", "o", "l", "i", "c", "y">>
s_EventInvokeConfig == <<"E", "v", "e", "n", "t", "I", "n", "v", "o", "k", "e", "C", "o", "n", "f", "i", "g">>

\* ------------------------------------------------------ string functions
\* String.prototype.toUpperCase on one character (ASCII letters).
UpperOf ==
  [a |-> "A", b |-> "B", c |-> "C", d |-> "D", e |-> "E", f |-> "F", g |-> "G",
   h |-> "H", i |-> "I", j |-> "J", k |-> "K", l |-> "L", m |-> "M", n |-> "N",
   o |-> "O", p |-> "P", q |-> "Q", r |-> "R", s |-> "S", t |-> "T", u |-> "U",
   v |-> "V", w |-> "W", x |-> "X", y |-> "Y", z |-> "Z"]

toUpperCase(ch) == IF ch \in DOMAIN UpperOf THEN UpperOf[ch] ELSE ch

\* camelCase.slice(0, 1).toUpperCase() + camelCase.slice(1)
pascalCase(camelCase) ==
  IF camelCase = <<>> THEN <<>>
  ELSE <<toUpperCase(Head(camelCase))>> \o Tail(camelCase)

\* str.split(":").pop(): what follows the last colon (all of str without one).
splitPop(str) ==
  LET colons == {i \in 1..Len(str) : str[i] = ":"}
      last   == IF colons = {} THEN 0
                ELSE CHOOSE i \in colons : \A j \in colons : j <= i
  IN SubSeq(str, last + 1, Len(str))

\* -------------------------------------------------------- object helpers
\* obj[key] = value on a JavaScript object.
SetKey(obj, key, value) ==
  [k \in DOMAIN obj \cup {key} |-> IF k = key THEN value ELSE obj[k]]

\* A truthy property: present (every value the model stores is truthy).
Has(obj, key) == key \in DOMAIN obj

\* ------------------------------------------------------ derived strings
\* `${fnDef.name}-dlq`
dlqNameOf(fnDef) == fnDef.name \o s_dlq

\* `arn:aws:sqs:${this.region}:${accountId}:${dlqName}`
dlqArnOf(rgn, acct, dlqName) == s_arn_sqs \o rgn \o <<":">> \o acct \o <<":">> \o dlqName

\* `https://sqs.${this.region}.amazonaws.com/${accountId}/${dlqName}`
dlqUrlOf(rgn, acct, dlqName) == s_https_sqs \o rgn \o s_amazonaws \o acct \o <<"/">> \o dlqName

\* sns.arn || sns: the event is an object with an arn, or the ARN string itself
\* (kept under the key "str").
snsArn(sns) == IF Has(sns, "arn") THEN sns.arn ELSE sns.str

queueIdOf(fnName) == pascalCase(fnName \o s_SQSDeadLetterQueue)
funcIdOf(fnName) == pascalCase(fnName \o s_LambdaFunction)
snsSubIdOf(fnName, sns) == pascalCase(fnName \o s_SnsSubscription \o splitPop(snsArn(sns)))
queuePolicyIdOf(fnName) == pascalCase(fnName \o s_SQSDeadLetterQueuePolicy)
eventInvokeConfigIdOf(fnName) == pascalCase(fnName \o s_EventInvokeConfig)

\* Mutant of _validateQueueName: the limit is tested with >= .
_validateQueueName_offByOne(queueName) == Len(queueName) >= MaxQueueNameLen

\* _validateQueueName: TRUE when it logs the error and calls process.exit(1).
_validateQueueName(queueName) == Len(queueName) > MaxQueueNameLen

\* ------------------------------------------------------------ _configure
\* const queueDef = { Type: "AWS::SQS::Queue", Properties: { QueueName: dlqName } }
queueDefOf(dlqName) ==
  [Type |-> "AWS::SQS::Queue", Properties |-> [QueueName |-> dlqName]]

\* Mutant of setDlqQueueUrl: the environment is always replaced by a new map.
setDlqQueueUrl_replace(funcDef, dlqUrl) ==
  [funcDef EXCEPT !.Properties =
     SetKey(@, "Environment", [Variables |-> [k \in {"DLQ_QUEUE_URL"} |-> dlqUrl]])]

\* if (funcDef.Properties.Environment) ...Variables["DLQ_QUEUE_URL"] = dlqUrl;
\* else funcDef.Properties.Environment = { Variables: { DLQ_QUEUE_URL: dlqUrl } };
setDlqQueueUrl(funcDef, dlqUrl) ==
  IF Has(funcDef.Properties, "Environment")
  THEN [funcDef EXCEPT !.Properties =
          SetKey(@, "Environment",
                 SetKey(funcDef.Properties.Environment, "Variables",
                        SetKey(funcDef.Properties.Environment.Variables,
                               "DLQ_QUEUE_URL", dlqUrl)))]
  ELSE [funcDef EXCEPT !.Properties =
          SetKey(@, "Environment", [Variables |-> [k \in {"DLQ_QUEUE_URL"} |-> dlqUrl]])]

\* snsSubDef.Properties["RedrivePolicy"] = { deadLetterTargetArn: dlqArn }
setRedrivePolicy(snsSubDef, dlqArn) ==
  [snsSubDef EXCEPT !.Properties =
     SetKey(@, "RedrivePolicy", [deadLetterTargetArn |-> dlqArn])]

\* Mutant of initialArns: the list starts from the ARNs the policy already holds.
initialArns_append(tpl, queuePolicyId) ==
  IF queuePolicyId \in DOMAIN tpl
  THEN tpl[queuePolicyId].Properties.PolicyDocument.Statement[1].Condition.ArnEquals.awsSourceArn
  ELSE <<>>

\* const arns = [];
initialArns(tpl, queuePolicyId) == <<>>

\* snsEvents.forEach(...): the template and the ARN list after the loop; threw is
\* TRUE when template.Resources[snsSubId] was undefined (a TypeError ends the loop).
RECURSIVE forEachSns(_, _, _, _, _)
forEachSns(tpl, fnName, snsEvents, dlqArn, arns) ==
  IF snsEvents = <<>> THEN [template |-> tpl, arns |-> arns, threw |-> FALSE]
  ELSE LET sns      == Head(snsEvents)
           snsSubId == snsSubIdOf(fnName, sns)
       IN IF snsSubId \notin DOMAIN tpl
          THEN [template |-> tpl, arns |-> arns, threw |-> TRUE]
          ELSE forEachSns(SetKey(tpl, snsSubId, setRedrivePolicy(tpl[snsSubId], dlqArn)),
                          fnName, Tail(snsEvents), dlqArn, Append(arns, snsArn(sns)))

\* template.Resources[queuePolicyId] = { Type: "AWS::SQS::QueuePolicy", ... }
queuePolicyDefOf(queueId, funcId, arns) ==
  [Type |-> "AWS::SQS::QueuePolicy",
   Properties |->
     [Queues |-> <<[Ref |-> queueId]>>,
      PolicyDocument |->
        [Version |-> "2012-10-17",
         Statement |->
           << [Effect |-> "Allow",
               Principal |-> [Service |-> "sns.amazonaws.com"],
               Action |-> "sqs:SendMessage",
               Resource |-> [FnGetAtt |-> <<queueId, "Arn">>],
               Condition |-> [ArnEquals |-> [awsSourceArn |-> arns]]],
              [Effect |-> "Allow",
               Principal |-> [Service |-> "lambda.amazonaws.com"],
               Action |-> "sqs:SendMessage",
               Resource |-> [FnGetAtt |-> <<queueId, "Arn">>],
               Condition |-> [ArnEquals |-> [awsSourceArn |-> [FnGetAtt |-> <<funcId, "Arn">>]]]] >>]]]

\* template.Resources[eventInvokeConfigId] = { Type: "AWS::Lambda::EventInvokeConfig", ... }
eventInvokeConfigDefOf(queueId, funcId) ==
  [Type |-> "AWS::Lambda::EventInvokeConfig",
   Properties |->
     [FunctionName |-> [Ref |-> funcId],
      Qualifier |-> "$LATEST",
      DestinationConfig |->
        [OnFailure |-> [Destination |-> [FnGetAtt |-> <<queueId, "Arn">>]]]]]

\* _configure after _validateQueueName returned: the writes of lines 214-289.
\* status "throw": a TypeError on an undefined resource left the function early.
configureWrites(acct, rgn, tpl, fnName, fnDef, snsEvents) ==
  LET dlqName == dlqNameOf(fnDef)
      dlqArn  == dlqArnOf(rgn, acct, dlqName)
      dlqUrl  == dlqUrlOf(rgn, acct, dlqName)
      queueId == queueIdOf(fnName)
      t1      == SetKey(tpl, queueId, queueDefOf(dlqName))
      funcId  == funcIdOf(fnName)
  IN IF funcId \notin DOMAIN t1
     THEN [template |-> t1, status |-> "throw"]
     ELSE
       LET t2 == SetKey(t1, funcId, setDlqQueueUrl(t1[funcId], dlqUrl))
           queuePolicyId == queuePolicyIdOf(fnName)
           loop == forEachSns(t2, fnName, snsEvents, dlqArn, initialArns(t2, queuePolicyId))
       IN IF loop.threw
          THEN [template |-> loop.template, status |-> "throw"]
          ELSE
            LET t3 == SetKey(loop.template, queuePolicyId,
                             queuePolicyDefOf(queueId, funcId, loop.arns))
                t4 == SetKey(t3, eventInvokeConfigIdOf(fnName),
                             eventInvokeConfigDefOf(queueId, funcId))
            IN [template |-> t4, status |-> "ok"]

\* Mutant of _configure: the queue is written before the name is validated.
_configure_validateLate(acct, rgn, tpl, fnName, fnDef, snsEvents) ==
  IF _validateQueueName(dlqNameOf(fnDef))
  THEN [template |-> SetKey(tpl, queueIdOf(fnName), queueDefOf(dlqNameOf(fnDef))),
        status |-> "exit"]
  ELSE configureWrites(acct, rgn, tpl, fnName, fnDef, snsEvents)

\* _configure: status "exit" is process.exit(1) inside _validateQueueName, taken
\* before any write.
_configure(acct, rgn, tpl, fnName, fnDef, snsEvents) ==
  IF _validateQueueName(dlqNameOf(fnDef))
  THEN [template |-> tpl, status |-> "exit"]
  ELSE configureWrites(acct, rgn, tpl, fnName, fnDef, snsEvents)

\* ---------------------------------------------------------------- Deploy
\* fnDef.enableSnsDlq !== false
dlqEnabled(fnDef) == ~(Has(fnDef, "enableSnsDlq") /\ fnDef.enableSnsDlq = FALSE)

\* (fnDef.events || []).filter((evt) => evt.sns).map((evt) => evt.sns)
snsEventsOf(fnDef) ==
  LET events == IF Has(fnDef, "events") THEN fnDef.events ELSE <<>>
      F[i \in 0..Len(events)] ==
        IF i = 0 THEN <<>>
        ELSE IF Has(events[i], "sns") THEN Append(F[i - 1], events[i].sns) ELSE F[i - 1]
  IN F[Len(events)]

\* The condition under which the callback calls _configure.
configured(fnDef) == dlqEnabled(fnDef) /\ snsEventsOf(fnDef) # <<>>

\* Object.entries(functions).flatMap(async ([fnName, fnDef]) => ...) from entry i
\* on.  Each callback runs to its end as it is called; a TypeError inside it only
\* rejects the promise it returns, which nothing awaits (rejected collects these
\* entries), and the next entry is visited; process.exit(1) ends the pass.
RECURSIVE flatMap(_, _, _, _, _, _)
flatMap(fns, i, acct, rgn, tpl, rej) ==
  IF i > Len(fns)
  THEN [template |-> tpl, outcome |-> "done", exitAt |-> 0, rejected |-> rej]
  ELSE IF ~configured(fns[i].def)
  THEN flatMap(fns, i + 1, acct, rgn, tpl, rej)
  ELSE LET r == _configure(acct, rgn, tpl, fns[i].fnName, fns[i].def,
                          snsEventsOf(fns[i].def))
       IN CASE r.status = "exit" ->
                 [template |-> r.template, outcome |-> "exit", exitAt |-> i, rejected |-> rej]
            [] r.status = "throw" ->
                 flatMap(fns, i + 1, acct, rgn, r.template, rej \cup {i})
            [] OTHER ->
                 flatMap(fns, i + 1, acct, rgn, r.template, rej)

\* -------------------------------------------------- DeploySingleFunction
\* Mutant of setEnvironmentUrl: the declared environment is replaced.
setEnvironmentUrl_replace(fnDef, dlqUrl) ==
  SetKey(fnDef, "environment", [k \in {"DLQ_QUEUE_URL"} |-> dlqUrl])

\* if (!fnDef.environment) fnDef.environment = {};
\* fnDef.environment.DLQ_QUEUE_URL = dlqUrl;
setEnvironmentUrl(fnDef, dlqUrl) ==
  IF Has(fnDef, "environment")
  THEN SetKey(fnDef, "environment", SetKey(fnDef.environment, "DLQ_QUEUE_URL", dlqUrl))
  ELSE SetKey(fnDef, "environment", [k \in {"DLQ_QUEUE_URL"} |-> dlqUrl])

\* this.serverless.service.functions[fnName]: the index of the entry, 0 for undefined.
lookupFunction(fns, fnName) ==
  IF \E i \in 1..Len(fns) : fns[i].fnName = fnName
  THEN CHOOSE i \in 1..Len(fns) : fns[i].fnName = fnName
  ELSE 0

\* DeploySingleFunction on the function declarations: the declarations after it.
singleFunction(fns, fnName, acct, rgn) ==
  LET i == lookupFunction(fns, fnName) IN
  IF i = 0 THEN fns
  ELSE IF ~dlqEnabled(fns[i].def) THEN fns
  ELSE IF snsEventsOf(fns[i].def) = <<>> THEN fns
  ELSE [fns EXCEPT ![i].def =
          setEnvironmentUrl(@, dlqUrlOf(rgn, acct, dlqNameOf(fns[i].def)))]

\* ---------------------------------------------------------------- inputs
s_arn_sns == <<"a", "r", "n", ":", "a", "w", "s", ":", "s", "n", "s", ":">>
s_topic == <<"t", "o", "p", "i", "c", "-">>
s_svc == <<"s", "v", "c", "-", "d", "e", "v", "-">>
s_us_east_1 == <<"u", "s", "-", "e", "a", "s", "t", "-", "1">>
s_eu_west_1 == <<"e", "u", "-", "w", "e", "s", "t", "-", "1">>
s_account == <<"1", "1", "1", "1", "1", "1", "1", "1", "1", "1", "1", "1">>
s_bar == <<"b", "a", "r">>
s_stale == <<"s", "t", "a", "l", "e">>
s_foo == <<"f", "o", "o">>
s_off == <<"o", "f", "f">>
s_baz == <<"b", "a", "z">>
s_huge == <<"h", "u", "g", "e">>
s_many == <<"m", "a", "n", "y">>
s_web == <<"w", "e", "b">>
s_ghost == <<"g", "h", "o", "s", "t">>
Alphabet ==
  <<"a", "b", "c", "d", "e", "f", "g", "h", "i", "j", "k", "l", "m",
    "n", "o", "p", "q", "r", "s", "t", "u", "v", "w", "x", "y", "z">>

\* The region getRegion() returns, and the account getAccountId() resolves to.
Regions == {s_eu_west_1}
Accounts == {s_account}

\* The ARN of the i-th topic: arn:aws:sns:us-east-1:111111111111:topic-<letter>.
topicArn(i) ==
  s_arn_sns \o s_us_east_1 \o <<":">> \o s_account \o <<":">> \o s_topic \o <<Alphabet[i]>>

\* Event declarations: sns: { arn }, sns: { arn, enableSnsDlq }, sns: "<arn>", http.
snsEvent(i) == [sns |-> [arn |-> topicArn(i)]]
snsEventFlag(i, flag) == [sns |-> [arn |-> topicArn(i), enableSnsDlq |-> flag]]
snsEventString(i) == [sns |-> [str |-> topicArn(i)]]
httpEvent == [http |-> "GET /"]

\* A display name of n characters.
nameOfLength(n) == [i \in 1..n |-> "n"]

\* The environment a function declares, and the Variables of its compiled
\* resource: none, FOO=bar, or FOO=bar with a DLQ_QUEUE_URL of an earlier build.
EnvKinds == {"none", "foo", "stale"}
envOf(envKind) ==
  IF envKind = "foo" THEN [FOO |-> s_bar]
  ELSE [FOO |-> s_bar, DLQ_QUEUE_URL |-> s_stale]

withEnvironment(fnDef, envKind) ==
  IF envKind = "none" THEN fnDef ELSE SetKey(fnDef, "environment", envOf(envKind))

\* The function declarations of serverless.service.functions, as entries
\* [fnName, def] in the order of Object.entries.
FnDecls(envKind) ==
  { [fnName |-> d.fnName, def |-> withEnvironment(d.def, envKind)] : d \in
    { [fnName |-> s_foo,
       def |-> [name |-> nameOfLength(MaxQueueNameLen - Len(s_dlq)),
                events |-> <<snsEvent(1), snsEventFlag(2, TRUE)>>]],
      [fnName |-> s_off,
       def |-> [name |-> s_svc \o s_off, enableSnsDlq |-> FALSE, events |-> <<snsEvent(1)>>]],
      [fnName |-> s_baz,
       def |-> [name |-> s_svc \o s_baz, enableSnsDlq |-> TRUE,
                events |-> <<snsEventFlag(1, FALSE), httpEvent, snsEventString(3)>>]],
      [fnName |-> s_huge,
       def |-> [name |-> nameOfLength(MaxQueueNameLen - Len(s_dlq) + 1),
                events |-> <<snsEvent(2)>>]],
      [fnName |-> s_many,
       def |-> [name |-> s_svc \o s_many, events |-> [i \in 1..ManyTopics |-> snsEvent(i)]]],
      [fnName |-> s_web,
       def |-> [name |-> s_svc \o s_web, events |-> <<httpEvent>>]] } }

\* The services: 1..MaxFns declarations with different function names.
Services(envKind) ==
  { fns \in UNION { [1..n -> FnDecls(envKind)] : n \in 1..MaxFns } :
      \A i, j \in 1..Len(fns) : i # j => fns[i].fnName # fns[j].fnName }

\* What the framework compiled before the hook runs: a function resource per
\* declared function and a subscription resource per SNS event, under the
\* identifiers the plugin recomputes, and the deployment bucket.
compiledFunction(fn, envKind) ==
  [Type |-> "AWS::Lambda::Function",
   Properties |->
     IF envKind = "none" THEN [FunctionName |-> fn.def.name]
     ELSE [FunctionName |-> fn.def.name, Environment |-> [Variables |-> envOf(envKind)]]]

compiledSubscription(fn, sns) ==
  [Type |-> "AWS::SNS::Subscription",
   Properties |-> [TopicArn |-> snsArn(sns), Protocol |-> "lambda",
                   Endpoint |-> [FnGetAtt |-> <<funcIdOf(fn.fnName), "Arn">>]]]

s_ServerlessDeploymentBucket == <<"S", "e", "r", "v", "e", "r", "l", "e", "s", "s", "D", "e", "p", "l", "o", "y", "m", "e", "n", "t", "B", "u", "c", "k", "e", "t">>

compiledResources(fns, envKind) ==
  { <<s_ServerlessDeploymentBucket, [Type |-> "AWS::S3::Bucket", Properties |-> [a |-> 1]]>> }
  \cup { <<funcIdOf(fns[i].fnName), compiledFunction(fns[i], envKind)>> : i \in 1..Len(fns) }
  \cup UNION { { <<snsSubIdOf(fns[i].fnName, snsEventsOf(fns[i].def)[k]),
                   compiledSubscription(fns[i], snsEventsOf(fns[i].def)[k])>> :
                 k \in 1..Len(snsEventsOf(fns[i].def)) } : i \in 1..Len(fns) }

\* The resource identifiers one of which the compiled template may lack: a
\* function resource, or the subscription of a function's first SNS event.
Lackable(fns) ==
  { funcIdOf(fns[i].fnName) : i \in 1..Len(fns) }
  \cup UNION { { snsSubIdOf(fns[i].fnName, snsEventsOf(fns[i].def)[k]) :
                 k \in {1} \cap 1..Len(snsEventsOf(fns[i].def)) } : i \in 1..Len(fns) }

compiledTemplate(fns, envKind, lacking) ==
  LET pairs == { p \in compiledResources(fns, envKind) : p[1] \notin lacking }
  IN [id \in { p[1] : p \in pairs } |-> (CHOOSE p \in pairs : p[1] = id)[2]]

\* ----------------------------------------------------------------- state
VARIABLES
  functions,    \* serverless.service.functions: entries [fnName, def]
  template,     \* compiledCloudFormationTemplate.Resources
  region,       \* this.region
  accountId,    \* what getAccountId() resolves to
  optFunction,  \* this.options.function
  outcome,      \* "idle", "done" (the hook returned), "exit" (process.exit(1)) or
                \* "crash" (the runtime ended the process on an unhandled rejection)
  exitAt,       \* the entry whose queue name made the process exit, else 0
  rejected,     \* the entries whose callback promise was rejected in the last Deploy
  runs,         \* Deploy runs so far
  lastOp,       \* the hook that ran last
  template0,    \* the template as compiled
  functions0,   \* the declarations as loaded
  first,        \* the template after the first Deploy
  derive        \* the identifier derivation on its own: two triples and their identifiers

vars == <<functions, template, region, accountId, optFunction, outcome, exitAt,
          rejected, runs, lastOp, template0, functions0, first, derive>>

Init ==
  \E envKind \in EnvKinds :
    \E fns \in Services(envKind) :
      \E lacking \in {{}} \cup { {id} : id \in Lackable(fns) } :
        /\ functions = fns
        /\ template = compiledTemplate(fns, envKind, lacking)
        /\ region \in Regions
        /\ accountId \in Accounts
        /\ optFunction \in {fns[1].fnName, s_ghost}
        /\ outcome = "idle"
        /\ exitAt = 0
        /\ rejected = {}
        /\ runs = 0
        /\ lastOp = "none"
        /\ template0 = template
        /\ functions0 = functions
        /\ first = template
        /\ derive = [pc |-> "off"]

\* The hook before:deploy:deploy.
Deploy ==
  /\ outcome \in {"idle", "done"}
  /\ runs < MaxRuns
  /\ LET r == flatMap(functions, 1, accountId, region, template, {})
     IN /\ template' = r.template
        /\ outcome' = r.outcome
        /\ exitAt' = r.exitAt
        /\ rejected' = r.rejected
        /\ first' = IF runs = 0 THEN r.template ELSE first
  /\ runs' = runs + 1
  /\ lastOp' = "Deploy"
  /\ UNCHANGED <<functions, region, accountId, optFunction, template0, functions0, derive>>

\* The hook before:deploy:function:packageFunction.
DeploySingleFunction ==
  /\ outcome \in {"idle", "done"}
  /\ functions' = singleFunction(functions, optFunction, accountId, region)
  /\ lastOp' = "DeploySingleFunction"
  /\ UNCHANGED <<template, region, accountId, optFunction, outcome, exitAt, rejected,
                 runs, template0, functions0, first, derive>>

\* A callback promise of Deploy was rejected and nothing handles it: after the
\* hook has returned, the runtime either only warns (no step) or ends the
\* process, depending on its unhandled-rejection policy.
UnhandledRejection ==
  /\ outcome = "done"
  /\ rejected # {}
  /\ outcome' = "crash"
  /\ UNCHANGED <<functions, template, region, accountId, optFunction, exitAt, rejected,
                 runs, lastOp, template0, functions0, first, derive>>

Next == Deploy \/ DeploySingleFunction \/ UnhandledRejection

Spec == Init /\ [][Next]_vars

\* ------------------------------------------------- identifier derivation
s_Foo == <<"F", "o", "o">>
s_x == <<"x">>
s_xSnsSubscriptiony == <<"x", "S", "n", "s", "S", "u", "b", "s", "c", "r", "i", "p", "t", "i", "o", "n", "y">>
s_y == <<"y">>
s_yLambdaFunction == <<"y", "L", "a", "m", "b", "d", "a", "F", "u", "n", "c", "t", "i", "o", "n">>

\* The roles of the resources _configure reads or writes.
Roles == {"queue", "function", "subscription", "queuePolicy", "eventInvokeConfig"}

\* Function names and topic ARNs the derivation is tried on.
IdNames == {s_foo, s_Foo, s_x, s_xSnsSubscriptiony}
IdArns ==
  { topicArn(1),
    s_arn_sns \o s_eu_west_1 \o <<":">> \o s_account \o <<":">> \o s_topic \o <<Alphabet[1]>>,
    s_arn_sns \o s_us_east_1 \o <<":">> \o s_account \o <<":">> \o s_y,
    s_arn_sns \o s_us_east_1 \o <<":">> \o s_account \o <<":">> \o s_yLambdaFunction }

\* (function name, role, source ARN): only a subscription has a source ARN.
Triples ==
  [fnName : IdNames, role : Roles \ {"subscription"}, arn : {<<>>}]
  \cup [fnName : IdNames, role : {"subscription"}, arn : IdArns]

\* The discriminator of a triple: the trailing segment of the source ARN.
discriminatorOf(t) == IF t.role = "subscription" THEN splitPop(t.arn) ELSE <<>>

\* The identifier _configure computes for a triple.
deriveId(t) ==
  CASE t.role = "queue" -> queueIdOf(t.fnName)
    [] t.role = "function" -> funcIdOf(t.fnName)
    [] t.role = "subscription" -> snsSubIdOf(t.fnName, [arn |-> t.arn])
    [] t.role = "queuePolicy" -> queuePolicyIdOf(t.fnName)
    [] OTHER -> eventInvokeConfigIdOf(t.fnName)

InitId ==
  /\ derive \in [pc : {"start"}, a : Triples, b : Triples, ida : {<<>>}, idb : {<<>>}]
  /\ functions = <<>>
  /\ template = [id \in {} |-> <<>>]
  /\ region \in Regions
  /\ accountId \in Accounts
  /\ optFunction = s_ghost
  /\ outcome = "idle"
  /\ exitAt = 0
  /\ rejected = {}
  /\ runs = 0
  /\ lastOp = "none"
  /\ template0 = template
  /\ functions0 = functions
  /\ first = template

\* The identifiers of the two triples, as _configure computes them.
DeriveIds ==
  /\ derive.pc = "start"
  /\ derive' = [derive EXCEPT !.pc = "derived",
                              !.ida = deriveId(derive.a),
                              !.idb = deriveId(derive.b)]
  /\ UNCHANGED <<functions, template, region, accountId, optFunction, outcome, exitAt,
                 rejected, runs, lastOp, template0, functions0, first>>

NextId == DeriveIds

SpecId == InitId /\ [][NextId]_vars

\* ---------------------------------------------------------------- claims
\* The identifiers _configure derives for one entry of functions.
idsOf(fn) ==
  { queueIdOf(fn.fnName), funcIdOf(fn.fnName), queuePolicyIdOf(fn.fnName),
    eventInvokeConfigIdOf(fn.fnName) }
  \cup { snsSubIdOf(fn.fnName, snsEventsOf(fn.def)[k]) : k \in 1..Len(snsEventsOf(fn.def)) }

\* No resource of the entry differs from the compiled template.
untouched(fn) ==
  \A id \in idsOf(fn) :
    /\ (id \in DOMAIN template) <=> (id \in DOMAIN template0)
    /\ id \in DOMAIN template => template[id] = template0[id]

\* The queue name, URL and ARN as the documentation spells them.
expectedName(fn) == fn.def.name \o <<"-", "d", "l", "q">>
expectedUrl(fn) ==
  <<"h", "t", "t", "p", "s", ":", "/", "/", "s", "q", "s", ".">> \o region
  \o <<".", "a", "m", "a", "z", "o", "n", "a", "w", "s", ".", "c", "o", "m", "/">>
  \o accountId \o <<"/">> \o expectedName(fn)
expectedArn(fn) ==
  <<"a", "r", "n", ":", "a", "w", "s", ":", "s", "q", "s", ":">> \o region \o <<":">>
  \o accountId \o <<":">> \o expectedName(fn)

\* The entry was handed to _configure and passed the name validation in the
\* last Deploy.
synthesized(i) ==
  /\ runs >= 1
  /\ configured(functions[i].def)
  /\ outcome = "done" \/ (outcome = "exit" /\ i < exitAt)

\* The Variables of a function resource ("no variables" is the empty map).
variablesOf(res) ==
  IF Has(res.Properties, "Environment") THEN res.Properties.Environment.Variables
  ELSE [k \in {} |-> <<>>]

\* C1: a second Deploy with the same inputs, when Deploy completes, leaves the
\* template equal to the template after the first Deploy: the same resource
\* identifiers with the same properties.
C1_DeployIdempotent ==
  (runs >= 2 /\ outcome = "done") => template = first

C1_Witness ==
  /\ runs = 2 /\ outcome = "done" /\ rejected = {}
  /\ template # template0
  /\ \E i \in 1..Len(functions) :
       /\ configured(functions[i].def)
       /\ queuePolicyIdOf(functions[i].fnName) \in DOMAIN template

\* C4: the queue name is validated before any write: at process.exit(1) the
\* offending entry has a name longer than 80 characters and none of its resources
\* was created or changed, while an entry whose name has at most 80 characters
\* (exactly 80 included) is accepted and gets its queue.
C4_ValidationPrecedesWrites ==
  /\ outcome = "exit" =>
       /\ exitAt \in 1..Len(functions)
       /\ Len(expectedName(functions[exitAt])) > MaxQueueNameLen
       /\ untouched(functions[exitAt])
  /\ \A i \in 1..Len(functions) :
       (runs >= 1 /\ configured(functions[i].def)) =>
         IF Len(expectedName(functions[i])) <= MaxQueueNameLen
         THEN synthesized(i) =>
                /\ queueIdOf(functions[i].fnName) \in DOMAIN template
                /\ template[queueIdOf(functions[i].fnName)].Properties.QueueName
                     = expectedName(functions[i])
         ELSE outcome = "exit" /\ exitAt <= i

C4_Witness ==
  /\ outcome = "exit" /\ exitAt = 2
  /\ Len(expectedName(functions[1])) = MaxQueueNameLen
  /\ queueIdOf(functions[1].fnName) \in DOMAIN template
  /\ queueIdOf(functions[2].fnName) \notin DOMAIN template

\* C5: every environment variable other than DLQ_QUEUE_URL that a function
\* resource had when compiled is still there with the same value, and a
\* synthesized function resource has DLQ_QUEUE_URL equal to
\* https://sqs.<region>.amazonaws.com/<accountId>/<name>-dlq, alone in a new map
\* when the resource had no environment.
C5_EnvMergePreservesKeys ==
  \A i \in 1..Len(functions) :
    LET id == funcIdOf(functions[i].fnName) IN
    id \in DOMAIN template0 =>
      /\ id \in DOMAIN template
      /\ \A k \in DOMAIN variablesOf(template0[id]) \ {"DLQ_QUEUE_URL"} :
           /\ k \in DOMAIN variablesOf(template[id])
           /\ variablesOf(template[id])[k] = variablesOf(template0[id])[k]
      /\ synthesized(i) =>
           /\ "DLQ_QUEUE_URL" \in DOMAIN variablesOf(template[id])
           /\ variablesOf(template[id])["DLQ_QUEUE_URL"] = expectedUrl(functions[i])
           /\ DOMAIN variablesOf(template[id])
                = DOMAIN variablesOf(template0[id]) \cup {"DLQ_QUEUE_URL"}

C5_Witness ==
  /\ lastOp = "Deploy"
  /\ \E i \in 1..Len(functions) :
       LET id == funcIdOf(functions[i].fnName) IN
       /\ synthesized(i)
       /\ id \in DOMAIN template0
       /\ "DLQ_QUEUE_URL" \in DOMAIN variablesOf(template0[id])
       /\ variablesOf(template0[id])["DLQ_QUEUE_URL"] # expectedUrl(functions[i])
       /\ variablesOf(template[id])["FOO"] = s_bar
       /\ variablesOf(template[id])["DLQ_QUEUE_URL"] = expectedUrl(functions[i])

\* C7 as claimed: at process.exit(1) the template equals the compiled template,
\* wherever the offending entry stands in the iteration order.
C7_AbortLeavesInitialTemplate ==
  outcome = "exit" => template = template0

\* C7 as amended: at process.exit(1) the offending entry is the first configured
\* one with a name longer than 80 characters, neither it nor any entry after it
\* has a resource created or changed, every configured entry before it already
\* has its queue, and the template equals the compiled one only when no
\* configured entry precedes the offending one.
C7_AbortLeavesLaterUntouched ==
  outcome = "exit" =>
    /\ configured(functions[exitAt].def)
    /\ Len(expectedName(functions[exitAt])) > MaxQueueNameLen
    /\ \A i \in 1..Len(functions) :
         /\ i >= exitAt => untouched(functions[i])
         /\ (i < exitAt /\ configured(functions[i].def)) =>
              /\ Len(expectedName(functions[i])) <= MaxQueueNameLen
              /\ queueIdOf(functions[i].fnName) \in DOMAIN template
              /\ template # template0
    /\ (\A i \in 1..(exitAt - 1) : ~configured(functions[i].def)) => template = template0

C7_Witness ==
  /\ outcome = "exit" /\ exitAt = 2
  /\ configured(functions[1].def)
  /\ rejected = {}
  /\ eventInvokeConfigIdOf(functions[1].fnName) \in DOMAIN template
  /\ template # template0

\* C8: DeploySingleFunction never changes the template; when options.function
\* names a declared function that is not disabled and has an SNS event, it sets
\* DLQ_QUEUE_URL in that function's declared environment to the URL Deploy
\* computes and keeps every other entry and declaration; otherwise it changes
\* nothing.
C8_SingleFunctionEnvOnly ==
  [][ lastOp' = "DeploySingleFunction" =>
        /\ template' = template
        /\ Len(functions') = Len(functions)
        /\ \A i \in 1..Len(functions) :
             IF /\ functions[i].fnName = optFunction
                /\ ~(Has(functions[i].def, "enableSnsDlq") /\ functions[i].def.enableSnsDlq = FALSE)
                /\ Has(functions[i].def, "events")
                /\ \E k \in 1..Len(functions[i].def.events) : Has(functions[i].def.events[k], "sns")
             THEN LET old == functions[i].def
                      new == functions'[i].def
                      oldEnv == IF Has(old, "environment") THEN old.environment
                                ELSE [k \in {} |-> <<>>]
                  IN /\ functions'[i].fnName = functions[i].fnName
                     /\ DOMAIN new = DOMAIN old \cup {"environment"}
                     /\ \A k \in DOMAIN old \ {"environment"} : new[k] = old[k]
                     /\ DOMAIN new.environment = DOMAIN oldEnv \cup {"DLQ_QUEUE_URL"}
                     /\ \A k \in DOMAIN oldEnv \ {"DLQ_QUEUE_URL"} :
                          new.environment[k] = oldEnv[k]
                     /\ new.environment["DLQ_QUEUE_URL"] = expectedUrl(functions[i])
             ELSE functions'[i] = functions[i] ]_vars

C8_Witness ==
  /\ lastOp = "DeploySingleFunction"
  /\ template = template0
  /\ functions # functions0
  /\ \E i \in 1..Len(functions) :
       /\ functions[i].fnName = optFunction
       /\ Has(functions0[i].def, "environment")
       /\ Has(functions0[i].def.environment, "DLQ_QUEUE_URL")
       /\ functions0[i].def.environment["DLQ_QUEUE_URL"] = s_stale
       /\ functions[i].def.environment["FOO"] = s_bar
       /\ functions[i].def.environment["DLQ_QUEUE_URL"] = expectedUrl(functions[i])

\* The source ARNs the SNS statement of a queue policy lists.
sourceArnsOf(res) ==
  res.Properties.PolicyDocument.Statement[1].Condition.ArnEquals.awsSourceArn

\* The queue-policy resources attached to the queue of an entry.
policiesOf(fn) ==
  { id \in DOMAIN template :
      /\ template[id].Type = "AWS::SQS::QueuePolicy"
      /\ template[id].Properties.Queues = <<[Ref |-> queueIdOf(fn.fnName)]>> }

\* sns.enableSnsDlq is not set to false.
eventEnabled(sns) == ~(Has(sns, "enableSnsDlq") /\ sns.enableSnsDlq = FALSE)

\* A Deploy that returned with no callback rejected.
deployedCleanly == runs >= 1 /\ outcome = "done" /\ rejected = {}

\* C2: a function with n >= 1 SNS events gets ceil(n/10) queue-policy resources,
\* none of whose statements lists more than 10 source ARNs, and every source ARN
\* is listed by exactly one of them.
C2_PolicyChunksOfTen ==
  deployedCleanly =>
    \A i \in 1..Len(functions) :
      configured(functions[i].def) =>
        LET n == Len(snsEventsOf(functions[i].def))
            policies == policiesOf(functions[i])
        IN /\ Cardinality(policies) = (n + 9) \div 10
           /\ \A id \in policies : Len(sourceArnsOf(template[id])) <= 10
           /\ \A k \in 1..n :
                Cardinality({ id \in policies :
                    \E m \in 1..Len(sourceArnsOf(template[id])) :
                      sourceArnsOf(template[id])[m] = snsArn(snsEventsOf(functions[i].def)[k]) }) = 1

\* C3: after Deploy a function with enableSnsDlq false has no DLQ resource, and
\* for a function with the feature on, a subscription has a RedrivePolicy and
\* its source ARN an authorization entry exactly when the event's own
\* enableSnsDlq is not false.
C3_SelectiveDisablement ==
  deployedCleanly =>
    \A i \in 1..Len(functions) :
      /\ ~dlqEnabled(functions[i].def) => untouched(functions[i])
      /\ configured(functions[i].def) =>
           \A k \in 1..Len(snsEventsOf(functions[i].def)) :
             LET sns == snsEventsOf(functions[i].def)[k]
                 sub == template[snsSubIdOf(functions[i].fnName, sns)]
                 arns == sourceArnsOf(template[queuePolicyIdOf(functions[i].fnName)])
             IN /\ Has(sub.Properties, "RedrivePolicy") <=> eventEnabled(sns)
                /\ (\E m \in 1..Len(arns) : arns[m] = snsArn(sns)) <=> eventEnabled(sns)

\* C6: after Deploy the subscription of every eligible event of every eligible
\* function references arn:aws:sqs:<region>:<accountId>:<name>-dlq of that
\* function, and the subscription of a disabled function or of an event whose
\* own flag is false is as it was compiled.
C6_RedrivePointer ==
  deployedCleanly =>
    \A i \in 1..Len(functions) :
      \A k \in 1..Len(snsEventsOf(functions[i].def)) :
        LET sns == snsEventsOf(functions[i].def)[k]
            id  == snsSubIdOf(functions[i].fnName, sns)
        IN IF dlqEnabled(functions[i].def) /\ eventEnabled(sns)
           THEN /\ Has(template[id].Properties, "RedrivePolicy")
                /\ template[id].Properties.RedrivePolicy
                     = [deadLetterTargetArn |-> expectedArn(functions[i])]
           ELSE template[id] = template0[id]

\* The compiled template lacks the function resource of the entry or the
\* subscription resource of one of its SNS events.
lacksResource(fn) ==
  \/ funcIdOf(fn.fnName) \notin DOMAIN template0
  \/ \E k \in 1..Len(snsEventsOf(fn.def)) :
       snsSubIdOf(fn.fnName, snsEventsOf(fn.def)[k]) \notin DOMAIN template0

\* C9: when the function resource of a configured function, or the subscription
\* resource of one of its events, is absent, Deploy does not return normally,
\* no resource of that function has been written, and the functions after it
\* are not processed.
C9_MissingResourceFailsLoudly ==
  runs >= 1 =>
    \A i \in 1..Len(functions) :
      (configured(functions[i].def) /\ lacksResource(functions[i])) =>
        /\ outcome # "done"
        /\ untouched(functions[i])
        /\ \A j \in (i + 1)..Len(functions) : untouched(functions[j])

\* C10: the derived identifiers of two different triples (function name, role,
\* discriminator) are different.
C10_IdentifiersInjective ==
  derive.pc = "derived" =>
    (<<derive.a.fnName, derive.a.role, discriminatorOf(derive.a)>>
       # <<derive.b.fnName, derive.b.role, discriminatorOf(derive.b)>>
     => derive.ida # derive.idb)
====
